---- MODULE Spec2Model ----
(***************************************************************************)
(* aph: Argon2id hashes from the command line.                             *)
(*                                                                         *)
(* A model of the stamp parsers (ParseTime, ParseMemory), the hash         *)
(* orchestrator (GenerateHash, GenerateHashWithSalt, generateHash) and the *)
(* command-line driver (main, printAndExit).                               *)
(*                                                                         *)
(* Representation.                                                         *)
(*   - A stamp is a sequence of one-character strings: "1s" is <<"1","s">>.*)
(*   - A key or a salt is a sequence of byte values 0..255.                *)
(*   - TLC's integers are 32 bits wide, Go's int is 64 bits wide and a     *)
(*     float64 carries a 53-bit mantissa, so wide numbers are sequences of *)
(*     16-bit limbs, least significant first.  A natural number of any     *)
(*     size ("big") has no most-significant zero limb (0 is <<>>); a Go    *)
(*     int is exactly four limbs in two's complement; a uint32 is exactly  *)
(*     two limbs; a uint8 is an integer 0..255.                            *)
(*   - A float64 is "zero", "inf" or a finite normal number m * 2^e with   *)
(*     2^52 <= m < 2^53.                                                   *)
(***************************************************************************)
EXTENDS Integers, Sequences, FiniteSets, TLC

\* ------------------------------------------------------------------------
\* Wide naturals: sequences of 16-bit limbs, least significant first.
\* ------------------------------------------------------------------------

LimbBits == 16

LimbBase == 65536

\* 2^n for n in 0..15
Pow2(n) ==
  <<1, 2, 4, 8, 16, 32, 64, 128, 256, 512, 1024, 2048, 4096, 8192, 16384,
    32768>>[n + 1]

\* x without its most-significant zero limbs
BNorm(x) ==
  LET nz == {i \in 1..Len(x) : x[i] # 0}
  IN  IF nz = {} THEN <<>>
      ELSE SubSeq(x, 1, CHOOSE i \in nz : \A j \in nz : j <= i)

\* x * k + c, limb by limb from the least significant: acc holds the limbs
\* of the result so far, followed by the carry
RECURSIVE BMulAcc(_, _, _)
BMulAcc(x, k, acc) ==
  IF Len(acc) > Len(x) THEN acc
  ELSE BMulAcc(x, k,
         SubSeq(acc, 1, Len(acc) - 1)
           \o << (x[Len(acc)] * k + acc[Len(acc)]) % LimbBase,
                 (x[Len(acc)] * k + acc[Len(acc)]) \div LimbBase >>)

\* x * k + c, for a small k and c (k <= 32768, c < LimbBase)
BMulAdd(x, k, c) == BNorm(BMulAcc(x, k, <<c>>))

\* the remainders of the short division of x by d, from the most significant
\* limb down: rs[j + 1] is the remainder after the j most significant limbs
RECURSIVE BRems(_, _, _)
BRems(x, d, rs) ==
  IF Len(rs) > Len(x) THEN rs
  ELSE BRems(x, d,
         Append(rs, (rs[Len(rs)] * LimbBase + x[Len(x) + 1 - Len(rs)]) % d))

\* <<x div d, x mod d>> for a small d (d <= 32768)
BDivMod(x, d) ==
  LET rs == BRems(x, d, <<0>>)
      n  == Len(x)
  IN  << BNorm([i \in 1..n |-> (rs[n + 1 - i] * LimbBase + x[i]) \div d]),
         rs[n + 1] >>

\* number of bits of a limb value
LimbLen(v) == Cardinality({b \in 0..(LimbBits - 1) : Pow2(b) <= v})

\* number of bits of x (0 for 0)
BBitLen(x) ==
  IF x = <<>> THEN 0 ELSE LimbBits * (Len(x) - 1) + LimbLen(x[Len(x)])

\* x * 2^n
BShl(x, n) ==
  IF x = <<>> THEN <<>>
  ELSE [i \in 1..(n \div LimbBits) |-> 0] \o BMulAdd(x, Pow2(n % LimbBits), 0)

\* x div 2^n
BShr(x, n) ==
  IF n \div LimbBits >= Len(x) THEN <<>>
  ELSE BDivMod(SubSeq(x, (n \div LimbBits) + 1, Len(x)), Pow2(n % LimbBits))[1]

\* whether x mod 2^n # 0
BLowBits(x, n) ==
  \/ \E i \in 1..(n \div LimbBits) : i <= Len(x) /\ x[i] # 0
  \/ /\ (n \div LimbBits) + 1 <= Len(x)
     /\ x[(n \div LimbBits) + 1] % Pow2(n % LimbBits) # 0

BOdd(x) == x # <<>> /\ x[1] % 2 = 1

\* the natural number written by the decimal digits ds (values 0..9) from
\* position i on, after the digits before i gave acc; four digits are taken
\* at a time while four are left
RECURSIVE BDigitsAcc(_, _, _)
BDigitsAcc(ds, i, acc) ==
  IF i > Len(ds) \/ Len(acc) < 0 THEN acc
  ELSE IF i + 3 <= Len(ds)
  THEN BDigitsAcc(ds, i + 4,
         BMulAdd(acc, 10000,
                 ds[i] * 1000 + ds[i + 1] * 100 + ds[i + 2] * 10 + ds[i + 3]))
  ELSE BDigitsAcc(ds, i + 1, BMulAdd(acc, 10, ds[i]))

BFromDigits(ds) == BDigitsAcc(ds, 1, <<>>)

\* a small natural number (below 2^31) as a big
BFromNat(n) == BNorm(<<n % LimbBase, n \div LimbBase>>)

\* qs = <<x, sticky>> with x divided by 10^k, four powers at a time while
\* four are left, and sticky set when a remainder was non-zero
RECURSIVE BDivPow10(_, _)
BDivPow10(qs, k) ==
  IF k = 0 \/ qs[1] = <<>> THEN qs
  ELSE IF k >= 4
  THEN BDivPow10(<< BDivMod(qs[1], 10000)[1],
                    qs[2] \/ BDivMod(qs[1], 10000)[2] # 0 >>, k - 4)
  ELSE BDivPow10(<< BDivMod(qs[1], 10)[1],
                    qs[2] \/ BDivMod(qs[1], 10)[2] # 0 >>, k - 1)

\* ------------------------------------------------------------------------
\* float64 (strconv.ParseFloat, the products and math.Trunc of the parsers)
\* ------------------------------------------------------------------------

MantBits == 53

\* the largest binary exponent of a finite float64 is 1023: a value of 2^1024
\* or more is +Inf
MaxExp == 1024

FZero == [kind |-> "zero", m |-> <<>>, e |-> 0]

FInf == [kind |-> "inf", m |-> <<>>, e |-> 0]

\* q (non-zero, with sticky telling that bits below q were dropped) rounded
\* to 53 bits, to nearest and ties to even: <<mant, shift>>, q ~ mant * 2^shift
RoundMant(q, sticky) ==
  LET shift == BBitLen(q) - MantBits
  IN  IF shift <= 0 THEN <<BShl(q, 0 - shift), shift>>
      ELSE LET t     == BShr(q, shift - 1)
               guard == BOdd(t)
               mant0 == BShr(t, 1)
               rest  == BLowBits(q, shift - 1) \/ sticky
               mant1 == IF guard /\ (rest \/ BOdd(mant0))
                        THEN BMulAdd(mant0, 1, 1) ELSE mant0
           IN  IF BBitLen(mant1) > MantBits
               THEN <<BShr(mant1, 1), shift + 1>>
               ELSE <<mant1, shift>>

\* the float64 mant * 2^e, +Inf when it is out of range
MkFloat(mant, e) ==
  IF e + MantBits > MaxExp THEN FInf ELSE [kind |-> "fin", m |-> mant, e |-> e]

\* the errors of package strconv, and no error
ErrRange == "strconv: value out of range"

ErrSyntax == "strconv: invalid syntax"

NoError == "nil"

\* the largest number of integer digits a finite float64 can have is 309
\* (strconv takes a decimal point beyond 310 digits for an overflow outright)
MaxDecimalPoint == 310

\* ds without its leading zeros
StripZeros(ds) ==
  LET nz == {i \in 1..Len(ds) : ds[i] # 0}
  IN  IF nz = {} THEN <<>>
      ELSE SubSeq(ds, CHOOSE i \in nz : \A j \in nz : i <= j, Len(ds))

\* strconv.ParseFloat(s, 64) of the text ip "." fp (fp may be empty): the
\* nearest float64 of the decimal value, and strconv.ErrRange with +Inf when
\* the value is too large.  The quotient n * 2^(16 L) / 10^k is taken with
\* enough bits for a correct rounding: 10^k < 2^(10 k / 3 + 1), so L limbs
\* of scaling leave the quotient 55 bits or more.
ParseFloat(ip, fp) ==
  LET n  == BFromDigits(ip \o fp)
      k  == Len(fp)
      L  == ((10 * k) \div 3 + 56) \div LimbBits + 1
      qs == BDivPow10(<<BShl(n, LimbBits * L), FALSE>>, k)
      ms == RoundMant(qs[1], qs[2])
      f  == MkFloat(ms[1], ms[2] - LimbBits * L)
  IN  IF Len(StripZeros(ip)) > MaxDecimalPoint
      THEN [f |-> FInf, err |-> ErrRange]
      ELSE IF n = <<>> THEN [f |-> FZero, err |-> NoError]
      ELSE IF f.kind = "inf" THEN [f |-> FInf, err |-> ErrRange]
      ELSE [f |-> f, err |-> NoError]

\* the float64 product t * k for a small integer k (1000, 1024)
FMul(t, k) ==
  IF t.kind # "fin" THEN t
  ELSE LET ms == RoundMant(BMulAdd(t.m, k, 0), FALSE)
       IN  MkFloat(ms[1], t.e + ms[2])

\* math.Trunc(t) == t: t has no fractional part
FIsWhole(t) ==
  \/ t.kind # "fin"
  \/ t.e >= 0
  \/ (0 - t.e < MantBits /\ ~BLowBits(t.m, 0 - t.e))

\* ------------------------------------------------------------------------
\* Go's int (64 bits, two's complement, four limbs)
\* ------------------------------------------------------------------------

IntBits == 64

IntLimbs == 4

Pad(x, n) == x \o [i \in 1..(n - Len(x)) |-> 0]

\* a small natural number as a Go int
I64(n) == Pad(BFromNat(n), IntLimbs)

MinInt64 == <<0, 0, 0, 32768>>

MaxInt64 == <<65535, 65535, 65535, 32767>>

\* Go leaves the result of converting a float64 that an int cannot hold to
\* the implementation: amd64 yields the minimum int, arm64 saturates.
ConvOverflow == {MinInt64, MaxInt64}

\* int(t) for t >= 0: the integral part of t; ov is the build's result when
\* the value does not fit
FToInt(t, ov) ==
  IF t.kind = "zero" THEN I64(0)
  ELSE IF t.kind = "inf" THEN ov
  ELSE IF t.e + MantBits > IntBits - 1 THEN ov
  ELSE IF t.e >= 0 THEN Pad(BShl(t.m, t.e), IntLimbs)
  ELSE Pad(BShr(t.m, 0 - t.e), IntLimbs)

\* ------------------------------------------------------------------------
\* The stamp matchers (regexp.MustCompile, FindStringSubmatch)
\* ------------------------------------------------------------------------

Digits == {"0", "1", "2", "3", "4", "5", "6", "7", "8", "9"}

DigitVal(c) ==
  CASE c = "0" -> 0 [] c = "1" -> 1 [] c = "2" -> 2 [] c = "3" -> 3
    [] c = "4" -> 4 [] c = "5" -> 5 [] c = "6" -> 6 [] c = "7" -> 7
    [] c = "8" -> 8 [] c = "9" -> 9

DigitVals(cs) == [i \in 1..Len(cs) |-> DigitVal(cs[i])]

\* the alternatives of each matcher's unit group, in the order the pattern
\* tries them
parseTime == <<(<<"m", "s">>), (<<"s">>)>>

parseMemory == <<(<<"K", "B">>), (<<"M", "B">>), (<<"G", "B">>)>>

\* \d+ at position i: the length of the longest run of digits starting there
DigitRun(s, i) ==
  LET stops == {j \in i..Len(s) : s[j] \notin Digits}
  IN  IF stops = {} THEN IF i <= Len(s) THEN Len(s) + 1 - i ELSE 0
      ELSE (CHOOSE j \in stops : \A k \in stops : j <= k) - i

\* whether the text u stands at position p of s
At(s, p, u) == p + Len(u) - 1 <= Len(s) /\ SubSeq(s, p, p + Len(u) - 1) = u

\* the first alternative of units standing at position p of s, <<>> when
\* none does
UnitAt(units, s, p) ==
  LET as == {a \in 1..Len(units) : At(s, p, units[a])}
  IN  IF as = {} THEN <<>>
      ELSE units[CHOOSE a \in as : \A b \in as : a <= b]

Nil == [matched |-> FALSE, ip |-> <<>>, fp |-> <<>>, unit |-> <<>>, end |-> 0]

\* The pattern (\d+(?:\.\d+)?)(u1|u2|...) tried at position i.  \d+ is greedy
\* and no unit starts with a digit or a dot, so a match takes the whole run
\* of digits, then a dot with its whole run of digits when a unit follows
\* them, and then the unit.  end is the position after the match.
MatchAt(units, s, i) ==
  LET n1 == DigitRun(s, i)
      j  == i + n1
      n2 == IF j <= Len(s) /\ s[j] = "." THEN DigitRun(s, j + 1) ELSE 0
      uf == UnitAt(units, s, j + 1 + n2)
      u  == UnitAt(units, s, j)
  IN  IF n1 = 0 THEN Nil
      ELSE IF n2 > 0 /\ uf # <<>>
      THEN [matched |-> TRUE, ip |-> SubSeq(s, i, j - 1),
            fp |-> SubSeq(s, j + 1, j + n2), unit |-> uf,
            end |-> j + 1 + n2 + Len(uf)]
      ELSE IF u # <<>>
      THEN [matched |-> TRUE, ip |-> SubSeq(s, i, j - 1), fp |-> <<>>,
            unit |-> u, end |-> j + Len(u)]
      ELSE Nil

\* FindStringSubmatch: the pattern is not anchored, so the leftmost match
\* anywhere in s is taken; Nil when there is none
FindStringSubmatch(units, s) ==
  LET starts == {i \in 1..Len(s) : MatchAt(units, s, i).matched}
  IN  IF starts = {} THEN Nil
      ELSE MatchAt(units, s, CHOOSE i \in starts : \A k \in starts : i <= k)

\* ------------------------------------------------------------------------
\* ParseTime and ParseMemory
\* ------------------------------------------------------------------------

ErrorMalformedStamp == "aph: provided stamp was malformed"

ErrorSplitAtomic == "aph: cannot use fractional value with type"

Ret(v, err) == [value |-> v, err |-> err]

\* ov is the build's result of an int conversion that does not fit
ParseTime(stamp, ov) ==
  LET details == FindStringSubmatch(parseTime, stamp)
      pf      == ParseFloat(DigitVals(details.ip), DigitVals(details.fp))
      t       == pf.f
  IN  IF ~details.matched THEN Ret(I64(0), ErrorMalformedStamp)
      ELSE IF pf.err # NoError THEN Ret(I64(0), pf.err)
      ELSE IF details.unit = <<"m", "s">>
      THEN IF ~FIsWhole(t) THEN Ret(I64(0), ErrorSplitAtomic)
           ELSE Ret(FToInt(t, ov), NoError)
      ELSE Ret(FToInt(FMul(t, 1000), ov), NoError)

ParseMemory(stamp, ov) ==
  LET details == FindStringSubmatch(parseMemory, stamp)
      pf      == ParseFloat(DigitVals(details.ip), DigitVals(details.fp))
      s       == pf.f
  IN  IF ~details.matched THEN Ret(I64(0), ErrorMalformedStamp)
      ELSE IF pf.err # NoError THEN Ret(I64(0), pf.err)
      ELSE IF details.unit = <<"K", "B">>
      THEN IF ~FIsWhole(s) THEN Ret(I64(0), ErrorSplitAtomic)
           ELSE Ret(FToInt(s, ov), NoError)
      ELSE IF details.unit = <<"M", "B">>
      THEN Ret(FToInt(FMul(s, 1024), ov), NoError)
      ELSE Ret(FToInt(FMul(FMul(s, 1024), 1024), ov), NoError)

\* ------------------------------------------------------------------------
\* Strings as bytes
\* ------------------------------------------------------------------------

\* the ASCII characters from the space (32) to the underscore (95), and the
\* letters and signs from a (97) to the tilde (126)
AsciiLow ==
  << " ", "!", "\"", "#", "$", "%", "&", "'", "(", ")", "*", "+", ",", "-",
     ".", "/", "0", "1", "2", "3", "4", "5", "6", "7", "8", "9", ":", ";",
     "<", "=", ">", "?", "@", "A", "B", "C", "D", "E", "F", "G", "H", "I",
     "J", "K", "L", "M", "N", "O", "P", "Q", "R", "S", "T", "U", "V", "W",
     "X", "Y", "Z", "[", "\\", "]", "^", "_" >>

AsciiHigh ==
  << "a", "b", "c", "d", "e", "f", "g", "h", "i", "j", "k", "l", "m", "n",
     "o", "p", "q", "r", "s", "t", "u", "v", "w", "x", "y", "z", "{", "|",
     "}", "~" >>

Ord(c) ==
  IF \E i \in 1..Len(AsciiLow) : AsciiLow[i] = c
  THEN 31 + CHOOSE i \in 1..Len(AsciiLow) : AsciiLow[i] = c
  ELSE 96 + CHOOSE i \in 1..Len(AsciiHigh) : AsciiHigh[i] = c

\* []byte(s) of a text s of printable characters
Bytes(s) == [i \in 1..Len(s) |-> Ord(s[i])]

\* the alphabet of base64.StdEncoding
StdAlphabet ==
  << "A", "B", "C", "D", "E", "F", "G", "H", "I", "J", "K", "L", "M", "N",
     "O", "P", "Q", "R", "S", "T", "U", "V", "W", "X", "Y", "Z", "a", "b",
     "c", "d", "e", "f", "g", "h", "i", "j", "k", "l", "m", "n", "o", "p",
     "q", "r", "s", "t", "u", "v", "w", "x", "y", "z", "0", "1", "2", "3",
     "4", "5", "6", "7", "8", "9", "+", "/" >>

\* the alphabet as bytes
EncodeStd == Bytes(StdAlphabet)

ByteAt(b, i) == IF i <= Len(b) THEN b[i] ELSE 0

\* the 24 bits of the g-th group of three bytes of b (g from 0)
Group(b, g) ==
  ByteAt(b, 3 * g + 1) * 65536 + ByteAt(b, 3 * g + 2) * 256
    + ByteAt(b, 3 * g + 3)

\* the p-th of the four 6-bit values of a group (p from 0)
Sextet(v, p) ==
  IF p = 0 THEN v \div 262144
  ELSE IF p = 1 THEN (v \div 4096) % 64
  ELSE IF p = 2 THEN (v \div 64) % 64
  ELSE v % 64

\* base64.RawStdEncoding.EncodeToString(b): no padding, so n bytes give
\* ceil(4 n / 3) characters
RawStdEncoding(b) ==
  [j \in 1..((4 * Len(b) + 2) \div 3) |->
     EncodeStd[Sextet(Group(b, (j - 1) \div 4), (j - 1) % 4) + 1]]

\* the decimal digits of the natural number x, before the text acc
RECURSIVE BDecimalAcc(_, _)
BDecimalAcc(x, acc) ==
  IF x = <<>> \/ Len(acc) < 0 THEN acc
  ELSE BDecimalAcc(BDivMod(x, 10)[1], <<48 + BDivMod(x, 10)[2]>> \o acc)

\* the natural number x in decimal
BDecimal(x) == IF BNorm(x) = <<>> THEN <<48>> ELSE BDecimalAcc(BNorm(x), <<>>)

\* ------------------------------------------------------------------------
\* Conversions between Go's integer types
\* ------------------------------------------------------------------------

\* uint32(n) of an int n: its low 32 bits
Uint32(n) == <<n[1], n[2]>>

\* uint8(n) of an int n: its low 8 bits
Uint8(n) == n[1] % 256

\* int(u) of a uint32 or a uint8
IntOfUint32(u) == Pad(u, IntLimbs)

IntOfUint8(u) == I64(u)

\* whether the int n is negative
IsNeg(n) == n[IntLimbs] >= 32768

\* -n in two's complement
Neg64(n) ==
  SubSeq(Pad(BMulAdd([i \in 1..IntLimbs |-> 65535 - n[i]], 1, 1),
             IntLimbs + 1), 1, IntLimbs)

\* the int n in decimal (%d)
FormatInt(n) ==
  IF IsNeg(n) THEN <<45>> \o BDecimal(Neg64(n)) ELSE BDecimal(n)

\* ------------------------------------------------------------------------
\* The hashing primitive (package argon2id, outside the repository)
\* ------------------------------------------------------------------------

ParameterError == "argon2id: invalid parameters"

HashingFailure == "argon2id: hashing failed"

\* What the environment decides of one call: whether the constructor
\* refuses the parameters (perr), the salt it draws (rsalt), whether the
\* hashing fails (herr) and how long it takes in nanoseconds (dur)
Env(perrs, rsalts, herrs, durs) ==
  [perr : perrs, rsalt : rsalts, herr : herrs, dur : durs]

\* argon2id.NewParameters: the parameters with a fresh salt, or an error
NewParameters(time, memory, threads, length, env) ==
  [params |-> [Time |-> time, Memory |-> memory, Threads |-> threads,
               Length |-> length, Salt |-> env.rsalt],
   err    |-> env.perr]

Sum(b) ==
  LET S[i \in 0..Len(b)] == IF i = 0 THEN 0 ELSE (S[i - 1] + b[i]) % 256
  IN  S[Len(b)]

\* The raw digest.  Argon2id itself is not modelled: the digest stands as
\* params.Length bytes that depend on everything the primitive reads and on
\* nothing else, which is what its contract gives (equal inputs, equal
\* output).
Digest(password, params) ==
  [i \in 1..params.Length[1] |->
     (Sum(password) + 3 * Sum(params.Salt) + 5 * Sum(params.Time)
        + 7 * Sum(params.Memory) + 11 * params.Threads
        + 13 * Sum(params.Length) + 17 * i) % 256]

\* the fixed parts of an encoded hash
EncodeHead ==
  Bytes(<<"$", "a", "r", "g", "o", "n", "2", "i", "d", "$", "v", "=", "1",
          "9", "$", "m", "=">>)

EncodeTime == Bytes(<<",", "t", "=">>)

EncodeThreads == Bytes(<<",", "p", "=">>)

EncodeSep == Bytes(<<"$">>)

\* $argon2id$v=19$m=<memory>,t=<time>,p=<threads>$<salt>$<digest>
Encode(params, digest) ==
  EncodeHead \o BDecimal(params.Memory)
    \o EncodeTime \o BDecimal(params.Time)
    \o EncodeThreads \o BDecimal(BFromNat(params.Threads))
    \o EncodeSep \o RawStdEncoding(params.Salt)
    \o EncodeSep \o RawStdEncoding(digest)

\* argon2id.GenerateFromPassword: the encoded hash, or an error (always one
\* when the digest is too long to be held)
GenerateFromPassword(password, params, env) ==
  IF env.herr # NoError \/ params.Length[2] # 0
  THEN [hash |-> <<>>, err |-> HashingFailure]
  ELSE [hash |-> Encode(params, Digest(password, params)), err |-> NoError]

\* ------------------------------------------------------------------------
\* generateHash, GenerateHash and GenerateHashWithSalt
\* ------------------------------------------------------------------------

\* ResultSet{}
ZeroResultSet ==
  [Time |-> I64(0), Threads |-> I64(0), Memory |-> I64(0), Length |-> I64(0),
   Key |-> <<>>, Hash |-> <<>>, Characters |-> I64(0), Duration |-> I64(0),
   Salt |-> <<>>]

\* what a call returned: the ResultSet, the error, and (for the properties
\* only) the invocations of the primitive it made, each with its inputs
Returned(rs, err, invoked) == [rs |-> rs, err |-> err, invoked |-> invoked]

\* generateHash with Characters taken from the length asked for
generateHash_RawLength(params, password, env) ==
  LET g == GenerateFromPassword(password, params, env)
      invoked == <<[password |-> password, params |-> params]>>
  IN  IF g.err # NoError THEN Returned(ZeroResultSet, g.err, invoked)
      ELSE Returned(
             [Time       |-> IntOfUint32(params.Time),
              Threads    |-> IntOfUint8(params.Threads),
              Memory     |-> IntOfUint32(params.Memory),
              Length     |-> IntOfUint32(params.Length),
              Key        |-> password,
              Hash       |-> g.hash,
              Characters |-> IntOfUint32(params.Length),
              Duration   |-> I64(env.dur),
              Salt       |-> params.Salt],
             NoError, invoked)

generateHash(params, password, env) ==
  LET g == GenerateFromPassword(password, params, env)
      invoked == <<[password |-> password, params |-> params]>>
  IN  IF g.err # NoError THEN Returned(ZeroResultSet, g.err, invoked)
      ELSE Returned(
             [Time       |-> IntOfUint32(params.Time),
              Threads    |-> IntOfUint8(params.Threads),
              Memory     |-> IntOfUint32(params.Memory),
              Length     |-> IntOfUint32(params.Length),
              Key        |-> password,
              Hash       |-> g.hash,
              Characters |-> I64(Len(g.hash)),
              Duration   |-> I64(env.dur),
              Salt       |-> params.Salt],
             NoError, invoked)

GenerateHash(seconds, threads, memory, length, key, env) ==
  LET np == NewParameters(Uint32(seconds), Uint32(memory), Uint8(threads),
                          Uint32(length), env)
  IN  IF np.err # NoError THEN Returned(ZeroResultSet, np.err, <<>>)
      ELSE generateHash(np.params, key, env)

\* GenerateHashWithSalt without the assignment of the salt
GenerateHashWithSalt_RandomSalt(seconds, threads, memory, length, key, salt, env) ==
  LET np == NewParameters(Uint32(seconds), Uint32(memory), Uint8(threads),
                          Uint32(length), env)
  IN  IF np.err # NoError THEN Returned(ZeroResultSet, np.err, <<>>)
      ELSE generateHash(np.params, key, env)

GenerateHashWithSalt(seconds, threads, memory, length, key, salt, env) ==
  LET np == NewParameters(Uint32(seconds), Uint32(memory), Uint8(threads),
                          Uint32(length), env)
      params == [np.params EXCEPT !.Salt = salt]
  IN  IF np.err # NoError THEN Returned(ZeroResultSet, np.err, <<>>)
      ELSE generateHash(params, key, env)

\* ------------------------------------------------------------------------
\* The command (strconv.Atoi, printAndExit, the report)
\* ------------------------------------------------------------------------

OnlyDigits(t) == \A i \in 1..Len(t) : t[i] \in Digits

\* the natural number x is 2^63 or more
Beyond63(x) == Len(x) > IntLimbs \/ (Len(x) = IntLimbs /\ x[IntLimbs] >= 32768)

\* strconv.Atoi(s): an optional sign and decimal digits; a syntax error for
\* anything else, a range error with the nearest int for a value an int
\* does not hold
Atoi(s) ==
  LET signed == s # <<>> /\ s[1] \in {"+", "-"}
      body   == IF signed THEN Tail(s) ELSE s
      neg    == signed /\ s[1] = "-"
      mag    == BFromDigits(DigitVals(body))
  IN  IF body = <<>> \/ ~OnlyDigits(body) THEN Ret(I64(0), ErrSyntax)
      ELSE IF ~neg /\ Beyond63(mag) THEN Ret(MaxInt64, ErrRange)
      ELSE IF neg /\ Beyond63(mag) /\ mag # MinInt64
      THEN Ret(MinInt64, ErrRange)
      ELSE IF neg THEN Ret(Neg64(Pad(mag, IntLimbs)), NoError)
      ELSE Ret(Pad(mag, IntLimbs), NoError)

\* a line of an error on the standard output
ErrorLine(err) == [kind |-> "error", text |-> err, fields |-> <<>>]

NotEnoughArguments == "aph: not enough arguments provided"

\* printAndExit that prints the error and returns
PrintAndExit_NoExit(err, out) ==
  IF err # NoError
  THEN [stdout |-> Append(out, ErrorLine(err)), exited |-> FALSE]
  ELSE [stdout |-> out, exited |-> FALSE]

\* printAndExit(err) with out printed so far: what is printed after it, and
\* whether the process exited (with status 1)
PrintAndExit(err, out) ==
  IF err # NoError
  THEN [stdout |-> Append(out, ErrorLine(err)), exited |-> TRUE]
  ELSE [stdout |-> out, exited |-> FALSE]

\* Duration.Milliseconds() of a duration in nanoseconds
Milliseconds(d) == Pad(BDivMod(BDivMod(BNorm(d), 1000)[1], 1000)[1], IntLimbs)

UnitMs == Bytes(<<"m", "s">>)

UnitKB == Bytes(<<"K", "B">>)

\* the report fmt.Printf writes: the values of its lines, in order
Report(rs, pretty) ==
  [kind   |-> "report",
   text   |-> "Generation Results:",
   fields |-> << FormatInt(rs.Time) \o UnitMs,
                 FormatInt(rs.Threads),
                 FormatInt(rs.Memory) \o UnitKB,
                 FormatInt(rs.Length),
                 rs.Key,
                 pretty,
                 rs.Hash,
                 FormatInt(rs.Characters),
                 FormatInt(Milliseconds(rs.Duration)) \o UnitMs >>]

\* ------------------------------------------------------------------------
\* State
\* ------------------------------------------------------------------------

VARIABLES
  stamp,       \* the text handed to a parser
  parsed,      \* what the parser returned: [fn, value, err]
  call,        \* the arguments of the calls of the hash functions
  rets,        \* what the calls made so far returned, in order
  args,        \* os.Args[1:]
  pc,          \* where main stands
  seconds,     \* the locals of main
  threads,
  memory,
  length,
  key,
  salt,
  result,
  prettySalt,
  stdout,      \* what was printed, in order
  exitCode,    \* the status of the process once pc = "exit"
  trace,       \* the calls main made, in order, each with its error
  invocations  \* the invocations of the hashing primitive, in order

parseVars == <<stamp, parsed>>

hashVars == <<call, rets>>

mainVars ==
  <<args, pc, seconds, threads, memory, length, key, salt, result,
    prettySalt, stdout, exitCode, trace, invocations>>

vars == <<parseVars, hashVars, mainVars>>

\* the parts of the state a run of the parsers, of the hash functions or of
\* main does not use
NoParse == stamp = <<>> /\ parsed = [fn |-> "none", value |-> I64(0), err |-> NoError]

NoHash ==
  /\ call = [seconds |-> I64(0), threads |-> I64(0), memory |-> I64(0),
             length |-> I64(0), key |-> <<>>, salt |-> <<>>]
  /\ rets = <<>>

NoMain ==
  /\ args = <<>>
  /\ pc = "none"
  /\ seconds = I64(0)
  /\ threads = I64(0)
  /\ memory = I64(0)
  /\ length = I64(0)
  /\ key = <<>>
  /\ salt = <<>>
  /\ result = ZeroResultSet
  /\ prettySalt = <<>>
  /\ stdout = <<>>
  /\ exitCode = 0
  /\ trace = <<>>
  /\ invocations = <<>>

\* ------------------------------------------------------------------------
\* The parsers on their own: a stamp is chosen, then one parser is applied
\* ------------------------------------------------------------------------

\* the longest stamp of arbitrary characters
MaxLen == 3

\* the most digits before and after the dot of the well-formed stamps
MaxIntDigits == 2

MaxFracDigits == 3

\* the characters arbitrary stamps are built from: digits, the dot, the
\* letters of the units and a character of neither kind
Chars == {"0", "1", "5", ".", "s", "m", "K", "M", "G", "B", "x"}

SomeDigits == {"0", "1", "5"}

Units == {<<"m", "s">>, <<"s">>, <<"K", "B">>, <<"M", "B">>, <<"G", "B">>}

Repeat(c, n) == [i \in 1..n |-> c]

Strings(alphabet, lo, hi) == UNION {[1..n -> alphabet] : n \in lo..hi}

\* numbers with and without a fraction, followed by a unit
NumberStamps ==
  { ip \o u : ip \in Strings(SomeDigits, 1, MaxIntDigits), u \in Units }
  \cup
  { ip \o <<".">> \o fp \o u :
      ip \in Strings(SomeDigits, 1, MaxIntDigits),
      fp \in Strings(SomeDigits, 1, MaxFracDigits), u \in Units }

\* the stamps of the tests and of the documentation
ExampleStamps ==
  { <<"1", "s">>, <<"5", "0", "0", "m", "s">>, <<"0", ".", "7", "5", "s">>,
    <<"3", "2">>, <<"0", ".", "5", "m", "s">>, <<"5", "0", "0", "K", "B">>,
    <<"1", "0", "M", "B">>, <<"6", "4", "M", "B">>, <<"1", "G", "B">>,
    <<"1", "0", "B">>, <<"0", ".", "5", "K", "B">>, <<"0", ".", "5", "M", "B">>,
    <<"0", ".", "7", "5", "G", "B">>, <<"5", ".", "0", "m", "s">>,
    <<"5", "0", "0", ".", "0", "0", "K", "B">>,
    <<"a", "b", "c", "1", "s">>, <<"-", "5", "s">>,
    <<"1", ".", "5", ".", "5", "m", "s">>, <<"1", "s", "x", "y", "z">>,
    <<"1", "0", "K", "B", "B">> }

\* stamps with more digits than a float64 or an int holds
LongStamps ==
  { <<"1", ".">> \o Repeat("0", 15) \o <<"1", "m", "s">>,
    <<"1", ".">> \o Repeat("0", 15) \o <<"1", "K", "B">>,
    <<"9", "0", "0", "7", "1", "9", "9", "2", "5", "4", "7", "4", "0",
      "9", "9", "3", "m", "s">>,
    Repeat("9", 20) \o <<"s">>,
    Repeat("9", 20) \o <<"G", "B">>,
    Repeat("9", 311) \o <<"s">>,
    Repeat("9", 311) \o <<"K", "B">> }

Stamps ==
  Strings(Chars, 0, MaxLen) \cup NumberStamps \cup ExampleStamps
    \cup LongStamps

NotParsed == [fn |-> "none", value |-> I64(0), err |-> NoError]

InitParse ==
  /\ stamp \in Stamps
  /\ parsed = NotParsed
  /\ NoHash
  /\ NoMain

CallParseTime ==
  /\ parsed.fn = "none"
  /\ \E ov \in ConvOverflow :
       parsed' = [fn |-> "ParseTime"] @@ ParseTime(stamp, ov)
  /\ UNCHANGED <<stamp, hashVars, mainVars>>

CallParseMemory ==
  /\ parsed.fn = "none"
  /\ \E ov \in ConvOverflow :
       parsed' = [fn |-> "ParseMemory"] @@ ParseMemory(stamp, ov)
  /\ UNCHANGED <<stamp, hashVars, mainVars>>

NextParse == CallParseTime \/ CallParseMemory

SpecParse == InitParse /\ [][NextParse]_vars

\* ------------------------------------------------------------------------
\* What the documentation says of the parsers
\* ------------------------------------------------------------------------

AllDigits(t) == Len(t) > 0 /\ \A i \in 1..Len(t) : t[i] \in Digits

\* digits, optionally followed by a dot and digits
IsNumber(t) ==
  \/ AllDigits(t)
  \/ \E p \in 2..(Len(t) - 1) :
       /\ t[p] = "."
       /\ AllDigits(SubSeq(t, 1, p - 1))
       /\ AllDigits(SubSeq(t, p + 1, Len(t)))

\* s is, in its entirety, a number followed by the unit u
NumberThenUnit(s, u) ==
  /\ Len(s) > Len(u)
  /\ SubSeq(s, Len(s) - Len(u) + 1, Len(s)) = u
  /\ IsNumber(SubSeq(s, 1, Len(s) - Len(u)))

WellFormed(s, units) == \E a \in 1..Len(units) : NumberThenUnit(s, units[a])

\* the unit and the number of a well-formed stamp
UnitOf(s, units) ==
  units[CHOOSE a \in 1..Len(units) : NumberThenUnit(s, units[a])]

NumberOf(s, units) == SubSeq(s, 1, Len(s) - Len(UnitOf(s, units)))

DotOf(t) ==
  IF \E p \in 1..Len(t) : t[p] = "." THEN CHOOSE p \in 1..Len(t) : t[p] = "."
  ELSE Len(t) + 1

IntPart(t) == SubSeq(t, 1, DotOf(t) - 1)

FracPart(t) == SubSeq(t, DotOf(t) + 1, Len(t))

FracNonZero(t) == \E i \in 1..Len(FracPart(t)) : FracPart(t)[i] # "0"

\* the number n times the factor of the unit u
TimesFactor(n, u) ==
  IF u = <<"s">> THEN BMulAdd(n, 1000, 0)
  ELSE IF u = <<"M", "B">> THEN BMulAdd(n, 1024, 0)
  ELSE IF u = <<"G", "B">> THEN BMulAdd(BMulAdd(n, 1024, 0), 1024, 0)
  ELSE n

\* the exact value of the number of a well-formed stamp times the factor of
\* its unit, rounded toward zero
ExactResult(s, units) ==
  LET t == NumberOf(s, units)
      n == BFromDigits(DigitVals(IntPart(t) \o FracPart(t)))
  IN  Pad(BDivPow10(<<TimesFactor(n, UnitOf(s, units)), FALSE>>,
                    Len(FracPart(t)))[1], IntLimbs)

\* the units of the parser that was called
UnitsOf(fn) == IF fn = "ParseTime" THEN parseTime ELSE parseMemory

AtomicUnits == {<<"m", "s">>, <<"K", "B">>}

\* C1: a stamp that is not in its entirety a number followed by a unit of the
\* parser fails with the malformed-stamp error
C1_MalformedRejected ==
  (parsed.fn # "none" /\ ~WellFormed(stamp, UnitsOf(parsed.fn)))
    => parsed.err = ErrorMalformedStamp

\* C2: the successful result for a well-formed stamp is the exact decimal
\* value times the factor of the unit, rounded toward zero
C2_ExactTruncatedProduct ==
  (/\ parsed.fn # "none"
   /\ WellFormed(stamp, UnitsOf(parsed.fn))
   /\ parsed.err = NoError)
    => parsed.value = ExactResult(stamp, UnitsOf(parsed.fn))

\* C3: a well-formed stamp of an atomic unit fails with the split-atomic error
\* and 0 exactly when its fraction is not zero, and a well-formed stamp of a
\* coarser unit never fails with that error
C3_SplitAtomicIffFraction ==
  (parsed.fn # "none" /\ WellFormed(stamp, UnitsOf(parsed.fn)))
    => IF UnitOf(stamp, UnitsOf(parsed.fn)) \in AtomicUnits
       THEN (parsed.err = ErrorSplitAtomic /\ parsed.value = I64(0))
              <=> FracNonZero(NumberOf(stamp, UnitsOf(parsed.fn)))
       ELSE parsed.err # ErrorSplitAtomic

\* C4: a failure of a parser is the malformed-stamp or the split-atomic error,
\* never another one, and comes with the integer 0
C4_OnlyTwoErrorKinds ==
  (parsed.fn # "none" /\ parsed.err # NoError)
    => /\ parsed.err \in {ErrorMalformedStamp, ErrorSplitAtomic}
       /\ parsed.value = I64(0)

\* ------------------------------------------------------------------------
\* The hash functions on their own: arguments are chosen, then the two
\* functions are called with them, a few times
\* ------------------------------------------------------------------------

\* the most calls made with the same arguments
MaxCalls == 2

\* 2^32 + n as an int, for n below 2^16
Above32(n) == <<n, 0, 1, 0>>

SecondsIn == {I64(1), Above32(1)}

ThreadsIn == {I64(1), I64(257), Neg64(I64(1))}

MemoryIn == {I64(65536), <<0, 1, 1, 0>>}

LengthIn == {I64(8), Above32(8)}

KeyIn == {Bytes(<<"p", "w">>)}

SaltIn == {<<>>, Bytes(<<"m", "y", "s", "a", "l", "t">>)}

\* the salts the primitive may draw, and the times a hashing may take
RandomSalts == {<<0, 255, 16, 7>>, <<97, 98, 99, 100>>}

Durations == {0, 1500000}

Envs ==
  Env({NoError, ParameterError}, RandomSalts, {NoError, HashingFailure},
      Durations)

InitHash ==
  /\ call \in [seconds : SecondsIn, threads : ThreadsIn, memory : MemoryIn,
               length : LengthIn, key : KeyIn, salt : SaltIn]
  /\ rets = <<>>
  /\ NoParse
  /\ NoMain

CallGenerateHash ==
  /\ Len(rets) < MaxCalls
  /\ \E env \in Envs :
       rets' = Append(rets,
                 [fn |-> "GenerateHash"]
                   @@ GenerateHash(call.seconds, call.threads, call.memory,
                                   call.length, call.key, env))
  /\ UNCHANGED <<call, parseVars, mainVars>>

CallGenerateHashWithSalt ==
  /\ Len(rets) < MaxCalls
  /\ \E env \in Envs :
       rets' = Append(rets,
                 [fn |-> "GenerateHashWithSalt"]
                   @@ GenerateHashWithSalt(call.seconds, call.threads,
                                           call.memory, call.length,
                                           call.key, call.salt, env))
  /\ UNCHANGED <<call, parseVars, mainVars>>

NextHash == CallGenerateHash \/ CallGenerateHashWithSalt

SpecHash == InitHash /\ [][NextHash]_vars

\* ------------------------------------------------------------------------
\* What the documentation says of the hash functions
\* ------------------------------------------------------------------------

\* the int n fits an 8-bit, a 32-bit unsigned value
FitsUint8(n) == n[1] <= 255 /\ n[2] = 0 /\ n[3] = 0 /\ n[4] = 0

FitsUint32(n) == n[3] = 0 /\ n[4] = 0

InRange(c) ==
  /\ FitsUint8(c.threads)
  /\ FitsUint32(c.seconds)
  /\ FitsUint32(c.memory)
  /\ FitsUint32(c.length)

\* C5: a call with a thread count outside 0..255, or a time, memory or
\* length outside 0..2^32-1, fails with the parameter error and does not
\* invoke the primitive
C5_OutOfRangeRejected ==
  ~InRange(call)
    => \A i \in 1..Len(rets) :
         rets[i].err = ParameterError /\ rets[i].invoked = <<>>

\* C6: the Time, Threads, Memory, Length and Key of every successful call
\* are the arguments of the call
C6_ResultEchoesArguments ==
  \A i \in 1..Len(rets) :
    rets[i].err = NoError
      => /\ rets[i].rs.Time = call.seconds
         /\ rets[i].rs.Threads = call.threads
         /\ rets[i].rs.Memory = call.memory
         /\ rets[i].rs.Length = call.length
         /\ rets[i].rs.Key = call.key

SaltedOk(i) ==
  i \in 1..Len(rets) /\ rets[i].fn = "GenerateHashWithSalt"
    /\ rets[i].err = NoError

\* C9: a successful GenerateHashWithSalt hands the primitive the salt of the
\* caller and returns it as Salt, for the empty salt too, and two successful
\* calls with the same arguments return the same Hash and Characters
C9_SaltVerbatimAndDeterministic ==
  /\ \A i \in 1..Len(rets) :
       SaltedOk(i)
         => /\ rets[i].rs.Salt = call.salt
            /\ Len(rets[i].invoked) = 1
            /\ rets[i].invoked[1].params.Salt = call.salt
  /\ \A i \in 1..Len(rets) : \A j \in 1..Len(rets) :
       (SaltedOk(i) /\ SaltedOk(j))
         => /\ rets[i].rs.Hash = rets[j].rs.Hash
            /\ rets[i].rs.Characters = rets[j].rs.Characters

\* two successful calls of GenerateHashWithSalt with the empty salt, which
\* took different times
C9_Witness ==
  /\ call.salt = <<>>
  /\ SaltedOk(1) /\ SaltedOk(2)
  /\ rets[1].rs.Duration # rets[2].rs.Duration

\* C10: the Characters of every successful call is the length of its Hash,
\* which is the encoded hash of the primitive, and every failing call
\* returns the zero ResultSet
C10_CharactersAndZeroOnFailure ==
  \A i \in 1..Len(rets) :
    IF rets[i].err = NoError
    THEN /\ rets[i].rs.Characters = I64(Len(rets[i].rs.Hash))
         /\ Len(rets[i].invoked) = 1
         /\ rets[i].rs.Hash =
              Encode(rets[i].invoked[1].params,
                     Digest(rets[i].invoked[1].password,
                            rets[i].invoked[1].params))
    ELSE rets[i].rs = ZeroResultSet

\* a successful call, a call the constructor refused and a call whose
\* hashing failed
C10_Witness ==
  /\ \E i \in 1..Len(rets) : rets[i].err = NoError /\ rets[i].rs.Hash # <<>>
  /\ \E i \in 1..Len(rets) :
       rets[i].err = HashingFailure /\ rets[i].invoked # <<>>

\* ------------------------------------------------------------------------
\* The command: main, one step for each call it makes
\* ------------------------------------------------------------------------

\* the most arguments on the command line
MaxArgs == 7

\* the texts each argument is chosen from, by position
ArgsIn(i) ==
  IF i = 1 THEN {<<"1", "s">>, <<"0", ".", "5", "m", "s">>, <<"x">>}
  ELSE IF i = 2 THEN {<<"1">>, <<"2", "5", "7">>, <<"x">>}
  ELSE IF i = 3 THEN {<<"6", "4", "M", "B">>, <<"1", "0", "B">>}
  ELSE IF i = 4 THEN {<<"8">>, <<"-", "1">>, Repeat("9", 20)}
  ELSE IF i = 5 THEN {<<"p", "w">>}
  ELSE IF i = 6 THEN {<<>>, <<"m", "y", "s", "a", "l", "t">>}
  ELSE {<<"x">>}

\* the command lines of n arguments
RECURSIVE CommandLinesOf(_)
CommandLinesOf(n) ==
  IF n = 0 THEN {<<>>}
  ELSE {Append(a, x) : a \in CommandLinesOf(n - 1), x \in ArgsIn(n)}

CommandLines == UNION {CommandLinesOf(n) : n \in 0..MaxArgs}

Init ==
  /\ args \in CommandLines
  /\ pc = "main"
  /\ seconds = I64(0)
  /\ threads = I64(0)
  /\ memory = I64(0)
  /\ length = I64(0)
  /\ key = <<>>
  /\ salt = <<>>
  /\ result = ZeroResultSet
  /\ prettySalt = <<>>
  /\ stdout = <<>>
  /\ exitCode = 0
  /\ trace = <<>>
  /\ invocations = <<>>
  /\ NoParse
  /\ NoHash

\* what a call of main leaves: the error is printed and the process exits
\* with status 1, or main goes on at next
After(stage, err, next) ==
  /\ trace' = Append(trace, [stage |-> stage, err |-> err])
  /\ stdout' = PrintAndExit(err, stdout).stdout
  /\ pc' = IF PrintAndExit(err, stdout).exited THEN "exit" ELSE next
  /\ exitCode' = IF PrintAndExit(err, stdout).exited THEN 1 ELSE exitCode

\* if len(args) < 5
CheckArgs ==
  /\ pc = "main"
  /\ pc' = IF Len(args) < 5 THEN "exit" ELSE "ParseTime"
  /\ stdout' = IF Len(args) < 5
               THEN Append(stdout, ErrorLine(NotEnoughArguments))
               ELSE stdout
  /\ exitCode' = IF Len(args) < 5 THEN 1 ELSE exitCode
  /\ UNCHANGED <<args, seconds, threads, memory, length, key, salt, result,
                 prettySalt, trace, invocations, parseVars, hashVars>>

SecondsParsed(r) ==
  /\ seconds' = r.value
  /\ After("ParseTime", r.err, "AtoiThreads")

\* seconds, err := aph.ParseTime(args[0]); printAndExit(err)
MainParseTime ==
  /\ pc = "ParseTime"
  /\ \E ov \in ConvOverflow : SecondsParsed(ParseTime(args[1], ov))
  /\ UNCHANGED <<args, threads, memory, length, key, salt, result,
                 prettySalt, invocations, parseVars, hashVars>>

\* threads, err = strconv.Atoi(args[1]); printAndExit(err)
MainAtoiThreads ==
  /\ pc = "AtoiThreads"
  /\ threads' = Atoi(args[2]).value
  /\ After("AtoiThreads", Atoi(args[2]).err, "ParseMemory")
  /\ UNCHANGED <<args, seconds, memory, length, key, salt, result,
                 prettySalt, invocations, parseVars, hashVars>>

MemoryParsed(r) ==
  /\ memory' = r.value
  /\ After("ParseMemory", r.err, "AtoiLength")

\* memory, err = aph.ParseMemory(args[2]); printAndExit(err)
MainParseMemory ==
  /\ pc = "ParseMemory"
  /\ \E ov \in ConvOverflow : MemoryParsed(ParseMemory(args[3], ov))
  /\ UNCHANGED <<args, seconds, threads, length, key, salt, result,
                 prettySalt, invocations, parseVars, hashVars>>

\* length, err = strconv.Atoi(args[3]); printAndExit(err)
MainAtoiLength ==
  /\ pc = "AtoiLength"
  /\ length' = Atoi(args[4]).value
  /\ After("AtoiLength", Atoi(args[4]).err, "Generate")
  /\ UNCHANGED <<args, seconds, threads, memory, key, salt, result,
                 prettySalt, invocations, parseVars, hashVars>>

Generated(ret) ==
  /\ result' = ret.rs
  /\ invocations' = invocations \o ret.invoked
  /\ After("GenerateHash", ret.err, "Printf")
  /\ prettySalt' = IF ret.err # NoError THEN prettySalt
                   ELSE RawStdEncoding(ret.rs.Salt)

\* key = args[4]; case 5 of the switch
MainGenerateHash ==
  /\ pc = "Generate"
  /\ Len(args) = 5
  /\ key' = Bytes(args[5])
  /\ \E env \in Envs :
       Generated(GenerateHash(seconds, threads, memory, length,
                              Bytes(args[5]), env))
  /\ UNCHANGED <<args, seconds, threads, memory, length, salt, parseVars,
                 hashVars>>

GeneratedWithSalt(ret) ==
  /\ result' = ret.rs
  /\ invocations' = invocations \o ret.invoked
  /\ After("GenerateHashWithSalt", ret.err, "Printf")
  /\ prettySalt' = IF ret.err # NoError THEN prettySalt ELSE ret.rs.Salt

\* key = args[4]; case 6 of the switch
MainGenerateHashWithSalt ==
  /\ pc = "Generate"
  /\ Len(args) = 6
  /\ key' = Bytes(args[5])
  /\ salt' = Bytes(args[6])
  /\ \E env \in Envs :
       GeneratedWithSalt(
         GenerateHashWithSalt(seconds, threads, memory, length,
                              Bytes(args[5]), Bytes(args[6]), env))
  /\ UNCHANGED <<args, seconds, threads, memory, length, parseVars,
                 hashVars>>

\* key = args[4]; the switch has no case for more than 6 arguments
MainNoCase ==
  /\ pc = "Generate"
  /\ Len(args) > 6
  /\ key' = Bytes(args[5])
  /\ pc' = "Printf"
  /\ UNCHANGED <<args, seconds, threads, memory, length, salt, result,
                 prettySalt, stdout, exitCode, trace, invocations,
                 parseVars, hashVars>>

\* fmt.Printf of the report, and the return of main
MainPrintf ==
  /\ pc = "Printf"
  /\ stdout' = Append(stdout, Report(result, prettySalt))
  /\ trace' = Append(trace, [stage |-> "Printf", err |-> NoError])
  /\ pc' = "exit"
  /\ exitCode' = 0
  /\ UNCHANGED <<args, seconds, threads, memory, length, key, salt, result,
                 prettySalt, invocations, parseVars, hashVars>>

Next ==
  \/ CheckArgs
  \/ MainParseTime
  \/ MainAtoiThreads
  \/ MainParseMemory
  \/ MainAtoiLength
  \/ MainGenerateHash
  \/ MainGenerateHashWithSalt
  \/ MainNoCase
  \/ MainPrintf

Spec == Init /\ [][Next]_vars

\* ------------------------------------------------------------------------
\* What the documentation says of the command
\* ------------------------------------------------------------------------

ReportPrinted == \E i \in 1..Len(stdout) : stdout[i].kind = "report"

ErrorPrinted == \E i \in 1..Len(stdout) : stdout[i].kind = "error"

Generating == {"GenerateHash", "GenerateHashWithSalt"}

\* a hash was generated in this run: the hash function was called and
\* returned without an error, having invoked the primitive
HashGenerated ==
  /\ \E i \in 1..Len(trace) :
       trace[i].stage \in Generating /\ trace[i].err = NoError
  /\ Len(invocations) = 1
  /\ result.Hash # <<>>

\* C7: the report is printed, and the status is 0, only in a run that
\* generated a hash, and the report is that of the ResultSet returned; with
\* fewer than 5 arguments an error is printed and the status is not 0
C7_ReportOnlyAfterHash ==
  /\ (ReportPrinted \/ (pc = "exit" /\ exitCode = 0))
       => /\ HashGenerated
          /\ stdout = <<Report(result, prettySalt)>>
  /\ (pc = "exit" /\ Len(args) < 5)
       => /\ stdout = <<ErrorLine(NotEnoughArguments)>>
          /\ exitCode # 0

\* the calls of main in the order of its text
Stages ==
  <<"ParseTime", "AtoiThreads", "ParseMemory", "AtoiLength", "Generate",
    "Printf">>

Rank(stage) ==
  IF stage \in Generating THEN 5
  ELSE CHOOSE r \in 1..Len(Stages) : Stages[r] = stage

Failed(i) == trace[i].err # NoError

\* C8: the calls are made in the order parse time, parse threads, parse
\* memory, parse length, generate, print; after the first call that fails
\* its error is printed, the process exits with a status other than 0 and
\* nothing more is called; the primitive is invoked at most once and only
\* after the four parses succeeded; no report follows a failure
C8_StagesInOrderFirstFailureEnds ==
  /\ \A i \in 1..Len(trace) :
       /\ i <= 4 => trace[i].stage = Stages[i]
       /\ i > 1 => Rank(trace[i - 1].stage) < Rank(trace[i].stage)
       /\ i < Len(trace) => ~Failed(i)
  /\ (trace # <<>> /\ Failed(Len(trace)))
       => /\ pc = "exit"
          /\ exitCode # 0
          /\ stdout = <<ErrorLine(trace[Len(trace)].err)>>
  /\ Len(invocations) <= 1
  /\ invocations # <<>>
       => /\ Len(trace) >= 5
          /\ trace[5].stage \in Generating
          /\ \A i \in 1..4 : ~Failed(i)
  /\ ErrorPrinted => ~ReportPrinted

\* a run whose parse of the memory failed after two calls that succeeded,
\* and so ended
C8_Witness ==
  /\ Len(trace) = 3
  /\ ~Failed(1) /\ ~Failed(2) /\ Failed(3)
  /\ pc = "exit"

====
